---- MODULE Spec2Model ----
(***************************************************************************)
(* A model of the data ingestion synchronization engine of Lifeboard:      *)
(* DataSyncManager.syncSource -> BaseConnector.sync -> fetchData ->        *)
(* processData (upsert, nested children, watermark, daily aggregation) of  *)
(* the Limitless and Bee connectors, and their pagination loops.           *)
(*                                                                         *)
(* Spec: one sync run at a time, of the one source the configuration       *)
(* enables.  SpecConcurrent: the cron run and the API run of one source,   *)
(* interleaved at every await.  SpecWalker: the pagination loops.          *)
(*                                                                         *)
(* JavaScript values are encoded as integers: a Date is its instant        *)
(* (0 = the epoch, Invalid = an Invalid Date), a raw JSON timestamp is an  *)
(* instant >= 1, Undef (the field is absent), Null or BadStr (a string     *)
(* Date cannot parse); an external id is a number >= 1 or 0 (absent).      *)
(***************************************************************************)
EXTENDS Integers, Sequences, FiniteSets, TLC

\* ----- bounds of the model
MaxBatch == 2
MaxId == 1
MaxTime == 2
MaxNodes == 3

\* ----- JavaScript values
Undef == -2
Null == -3
BadStr == -4
Invalid == -1

Max(a, b) == IF a > b THEN a ELSE b

\* a || b: the first operand unless it is falsy (undefined, null, 0)
Truthy(v) == v # Undef /\ v # Null /\ v # 0
Or2(a, b) == IF Truthy(a) THEN a ELSE b
Or3(a, b, c) == Or2(a, Or2(b, c))
Or4(a, b, c, d) == Or2(a, Or3(b, c, d))

\* new Date(v): undefined and unparsable strings give an Invalid Date, null and 0 the epoch
NewDate(v) ==
  IF v = Undef \/ v = BadStr THEN Invalid
  ELSE IF v = Null THEN 0
  ELSE v

\* a > b on Dates: false when either side is an Invalid Date (NaN)
DateGT(a, b) == a # Invalid /\ b # Invalid /\ a > b

\* date.toISOString().split('T')[0] of a valid Date: the UTC calendar day
\* (two instants of the model per day: 1, 2 are day 1; 3, 4 are day 2; the epoch
\* is day 0); toISOString throws a RangeError on an Invalid Date
DateOf(d) == (d + 1) \div 2

Triggers == {"cron", "api"}

\* ----- raw records served by the Limitless API
\* a content node of a lifelog: its text and its child nodes (depth <= 2)
\* (the last tree has a node whose start_time is not a date, before a plain sibling)
NodeAt(c, st, kids) == [content |-> c, children |-> kids, start_time |-> st]
Leaf(c) == NodeAt(c, Undef, <<>>)
Node(c, kids) == NodeAt(c, Undef, kids)
ContentTrees ==
  { <<>>, <<Leaf("x")>>, <<Node("x", <<Leaf("y")>>)>>,
    <<NodeAt("x", BadStr, <<Leaf("y")>>), Leaf("z")>> }

Lifelog(id, st, ca, et, ua, ti, co) ==
  [id |-> id, title |-> ti, start_time |-> st, startTime |-> Undef, created_at |-> ca,
   end_time |-> et, endTime |-> Undef, updated_at |-> ua, contents |-> co]

\* the lifelogs a page may hold: every id (0 is an absent id) with the earliest and
\* the latest modification time, every start time (Undef is an absent one), a second
\* payload with no modification time, the content trees, and a lifelog whose
\* start_time and created_at are null, and one more id
RawTimes == {Undef} \cup (1..MaxTime)
RawLifelogs ==
  { Lifelog(id, 1, Undef, 1, ua, "a", <<>>) : id \in 0..MaxId, ua \in {1, MaxTime} }
  \cup { Lifelog(1, st, Undef, st, 1, "a", <<>>) : st \in RawTimes }
  \cup { Lifelog(1, 1, Undef, 1, Undef, "b", <<>>) }
  \cup { Lifelog(1, 1, Undef, 1, 1, "a", co) : co \in ContentTrees }
  \cup { Lifelog(1, Null, Null, 1, 1, "a", <<>>) }
  \cup { Lifelog(MaxId + 1, 1, Undef, 1, 1, "a", <<>>) }

SeqsUpTo(S, n) == UNION { [1..k -> S] : k \in 0..n }
LifelogBatches == SeqsUpTo(RawLifelogs, MaxBatch)

RECURSIVE CountNodes(_)
CountNodes(contentNodes) ==
  IF contentNodes = <<>> THEN 0
  ELSE 1 + CountNodes(Head(contentNodes).children) + CountNodes(Tail(contentNodes))

RECURSIVE BatchNodes(_)
BatchNodes(lifelogs) ==
  IF lifelogs = <<>> THEN 0
  ELSE CountNodes(Head(lifelogs).contents) + BatchNodes(Tail(lifelogs))

\* ----- the state
VARIABLES
  limitless_entries,        \* table: sequence of rows, a row's id is its position
  limitless_content_nodes,  \* table: sequence of rows, a row's id is its position
  system_metadata,          \* table: key -> value, one row per key present
  daily_aggregations,       \* table: date -> row, one row per date present
  bee_conversations,        \* table: sequence of rows, a row's id is its position
  bee_utterances,           \* table: sequence of rows
  bee_facts,                \* table: sequence of rows
  connectors,               \* DataSyncManager.connectors: the sources enabled in the configuration
  run,                      \* per trigger: the state of its syncSource call
  walk,                     \* the pagination loop of one fetch
  syncAll,                  \* the state of a syncAllSources call
  validation,               \* a call of DateNormalizer.isValidYYYYMMDD: argument and result
  apiKeys,                  \* the sources whose sourceConfig.apiKey is set
  weather_entries,          \* table: sequence of rows
  weather,                  \* per trigger: the state of its weather sync run
  mood_entries,             \* table: sequence of rows
  mood                      \* the last POST /mood request and its response

limitlessTables == <<limitless_entries, limitless_content_nodes>>
manualTables == <<weather_entries, weather, mood_entries, mood>>
beeTables == <<bee_conversations, bee_utterances, bee_facts>>
engineVars ==
  <<limitless_entries, limitless_content_nodes, bee_conversations, bee_utterances, bee_facts,
    system_metadata, daily_aggregations, connectors, run, syncAll, validation, apiKeys, manualTables>>
vars ==
  <<limitless_entries, limitless_content_nodes, bee_conversations, bee_utterances, bee_facts,
    system_metadata, daily_aggregations, connectors, run, walk, syncAll, validation, apiKeys, manualTables>>

\* a keyed table with no row
EmptyTable == [k \in {} |-> 0]

\* no call of isValidYYYYMMDD: a null argument, not yet passed
NullArg == [kind |-> "null", chars |-> <<>>]
IdleValidation == [dateString |-> NullArg, called |-> FALSE, result |-> FALSE]

\* a syncAllSources call that has not started
IdleSyncAll == [pc |-> "idle", pending |-> <<>>, results |-> EmptyTable]

\* a syncSource call that has not started
IdleRun ==
  [pc |-> "idle", source |-> "none", rawData |-> <<>>, facts |-> <<>>, i |-> 0,
   latestSyncTimestamp |-> 0, latestItemTimestamp |-> 0,
   newEntries |-> 0, updatedEntries |-> 0, errorCount |-> 0, outcome |-> "none",
   result |-> [success |-> FALSE, newEntries |-> 0, updatedEntries |-> 0, errors |-> 0],
   fetched |-> FALSE, syncTimeBefore |-> 0, fetchFailed |-> FALSE, thrown |-> FALSE]

\* the value of a field no request has set
NoResult == [newEntries |-> 0, updatedEntries |-> 0, errors |-> 0]

\* no weather run: the options of the call, the requests sent, the response held
IdleWeather ==
  [pc |-> "idle", date |-> 0, location |-> "", forceRefresh |-> FALSE, requests |-> 0,
   weatherData |-> "", result |-> [success |-> FALSE, newEntries |-> 0, updatedEntries |-> 0, errors |-> 0]]

\* no POST /mood request yet; enabled is dataSources.mood.enabled of the configuration
IdleMood ==
  [called |-> FALSE, enabled |-> TRUE, date |-> Undef, mood_score |-> [kind |-> "undefined"],
   status |-> 0, processed |-> FALSE, result |-> NoResult,
   before |-> <<>>, aggregationsBefore |-> <<>>]

\* a pagination loop that has not started; allData and served hold one number per
\* page, the count of its items
IdleWalk ==
  [pc |-> "idle", connector |-> "none", page |-> 1, cursor |-> FALSE, allData |-> <<>>,
   requests |-> 0, served |-> <<>>, toDetail |-> 0, detailRequests |-> 0, detailed |-> 0]

Init ==
  /\ walk = IdleWalk
  /\ syncAll = IdleSyncAll
  /\ validation = IdleValidation
  /\ apiKeys = {"limitless", "bee"}
  /\ weather_entries = <<>>
  /\ weather = [t \in Triggers |-> IdleWeather]
  /\ mood_entries = <<>>
  /\ mood = IdleMood
  /\ limitless_entries = <<>>
  /\ limitless_content_nodes = <<>>
  /\ bee_conversations = <<>>
  /\ bee_utterances = <<>>
  /\ bee_facts = <<>>
  /\ connectors \in {{"limitless"}, {"bee"}}
  /\ system_metadata = EmptyTable
  /\ daily_aggregations = EmptyTable
  /\ run = [t \in Triggers |-> IdleRun]

\* ----- system_metadata: the watermark store (BaseConnector)
SyncKey(sourceName) == "last_sync_time_" \o sourceName

\* getLastSyncTime: the stored value as a Date, the epoch when the key has no row
getLastSyncTime(meta, sourceName) ==
  IF SyncKey(sourceName) \in DOMAIN meta THEN NewDate(meta[SyncKey(sourceName)]) ELSE 0

\* updateLastSyncTime: INSERT .. ON CONFLICT (key) DO UPDATE SET value = $2
updateLastSyncTime(meta, sourceName, syncTime) ==
  [k \in DOMAIN meta \cup {SyncKey(sourceName)} |->
     IF k = SyncKey(sourceName) THEN syncTime ELSE meta[k]]

\* ----- daily_aggregations (DataProcessor, AIProvider)
NewAggregation ==
  [has_limitless_data |-> FALSE, has_bee_data |-> FALSE, has_weather_data |-> FALSE,
   has_mood_data |-> FALSE, limitless_entry_count |-> 0, bee_conversation_count |-> 0,
   ai_summary |-> <<>>]

AggregationRow(agg, date) == IF date \in DOMAIN agg THEN agg[date] ELSE NewAggregation

PutRow(table, key, row) == [k \in DOMAIN table \cup {key} |-> IF k = key THEN row ELSE table[k]]

\* the statement with the cached summary cleared on every apply
AggregationUpsertClearingSummary(agg, date, sourceType, itemCount) ==
  LET old == [AggregationRow(agg, date) EXCEPT !.ai_summary = <<>>]
      n == IF itemCount > 0 THEN itemCount ELSE 0
  IN PutRow(agg, date,
       CASE sourceType = "limitless" ->
              [old EXCEPT !.has_limitless_data = TRUE,
                          !.limitless_entry_count = Max(old.limitless_entry_count, n)]
         [] sourceType = "bee" ->
              [old EXCEPT !.has_bee_data = TRUE,
                          !.bee_conversation_count = Max(old.bee_conversation_count, n)]
         [] sourceType = "weather" -> [old EXCEPT !.has_weather_data = TRUE]
         [] OTHER -> [old EXCEPT !.has_mood_data = TRUE])

\* the statement updateDailyAggregation builds: INSERT .. ON CONFLICT (date) DO UPDATE
\* SET has_<source>_data = TRUE, <count> = GREATEST(COALESCE(stored, 0), $3)
AggregationUpsert(agg, date, sourceType, itemCount) ==
  LET old == AggregationRow(agg, date)
      n == IF itemCount > 0 THEN itemCount ELSE 0
  IN PutRow(agg, date,
       CASE sourceType = "limitless" ->
              [old EXCEPT !.has_limitless_data = TRUE,
                          !.limitless_entry_count = Max(old.limitless_entry_count, n)]
         [] sourceType = "bee" ->
              [old EXCEPT !.has_bee_data = TRUE,
                          !.bee_conversation_count = Max(old.bee_conversation_count, n)]
         [] sourceType = "weather" -> [old EXCEPT !.has_weather_data = TRUE]
         [] OTHER -> [old EXCEPT !.has_mood_data = TRUE])

\* DataProcessor.js with its require of DatabaseManager in place
DataProcessorImportsDbRestored == TRUE

\* DataProcessor.js requires only the logger: its require of DatabaseManager is
\* commented out, so the identifier db is unbound in updateDailyAggregation
DataProcessorImportsDb == FALSE

\* the statement with the count overwritten (<count> = EXCLUDED.<count>) and sent
OverwriteDailyAggregation(agg, date, sourceType, itemCount) ==
  LET old == AggregationRow(agg, date)
      n == IF itemCount > 0 THEN itemCount ELSE 0
  IN PutRow(agg, date,
       CASE sourceType = "limitless" ->
              [old EXCEPT !.has_limitless_data = TRUE, !.limitless_entry_count = n]
         [] sourceType = "bee" ->
              [old EXCEPT !.has_bee_data = TRUE, !.bee_conversation_count = n]
         [] OTHER -> old)

\* updateDailyAggregation(date, sourceType, itemCount): the table after the call.
\* db.query(..) is evaluated inside the try block; with db unbound it throws a
\* ReferenceError, which the catch block logs, and the statement is never sent
updateDailyAggregation(agg, date, sourceType, itemCount) ==
  IF sourceType \notin {"limitless", "bee", "weather", "mood"} THEN agg
  ELSE IF ~DataProcessorImportsDb THEN agg
  ELSE AggregationUpsert(agg, date, sourceType, itemCount)

\* ----- limitless_entries and limitless_content_nodes (LimitlessConnector)
\* the entry processData builds from a raw lifelog
EntryOf(lifelog) ==
  [limitless_id |-> lifelog.id,
   title |-> lifelog.title,
   start_time |-> NewDate(Or3(lifelog.start_time, lifelog.startTime, lifelog.created_at)),
   end_time |-> NewDate(Or3(lifelog.end_time, lifelog.endTime, lifelog.updated_at))]

\* the two validations of processData: a Date object is never falsy, so only the id
\* and the two isNaN tests can reject
EntryValid(entry) ==
  /\ Truthy(entry.limitless_id)
  /\ entry.start_time # Invalid
  /\ entry.end_time # Invalid

RowsWithId(entries, limitless_id) ==
  { k \in 1..Len(entries) : entries[k].limitless_id = limitless_id }

\* the statement without its ON CONFLICT clause: every record is inserted as a new row
UpsertEntryInsertOnly(entries, entry) ==
  [rows |-> Append(entries, [id |-> Len(entries) + 1] @@ entry),
   id |-> Len(entries) + 1, inserted |-> TRUE]

\* the upsert with its RETURNING clause reporting every row as inserted
UpsertEntryAlwaysInserted(entries, entry) ==
  IF RowsWithId(entries, entry.limitless_id) = {}
  THEN [rows |-> Append(entries, [id |-> Len(entries) + 1] @@ entry),
        id |-> Len(entries) + 1, inserted |-> TRUE]
  ELSE LET k == CHOOSE k \in RowsWithId(entries, entry.limitless_id) : TRUE
       IN [rows |-> [entries EXCEPT ![k] = [id |-> k] @@ entry],
           id |-> k, inserted |-> TRUE]

\* INSERT INTO limitless_entries .. ON CONFLICT (limitless_id) DO UPDATE SET ..
\* RETURNING id, (xmax = 0) AS inserted
UpsertEntry(entries, entry) ==
  IF RowsWithId(entries, entry.limitless_id) = {}
  THEN [rows |-> Append(entries, [id |-> Len(entries) + 1] @@ entry),
        id |-> Len(entries) + 1, inserted |-> TRUE]
  ELSE LET k == CHOOSE k \in RowsWithId(entries, entry.limitless_id) : TRUE
       IN [rows |-> [entries EXCEPT ![k] = [id |-> k] @@ entry],
           id |-> k, inserted |-> FALSE]

\* a node inserted before the id of its entry is known
InsertContentNodeUnlinked(nodes, entryId, parentNodeDbId, node) ==
  Append(nodes, [id |-> Len(nodes) + 1, entry_id |-> 0,
                 parent_id |-> parentNodeDbId, content |-> node.content])

\* INSERT INTO limitless_content_nodes (..) VALUES (..) RETURNING id
InsertContentNode(nodes, entryId, parentNodeDbId, node) ==
  Append(nodes, [id |-> Len(nodes) + 1, entry_id |-> entryId,
                 parent_id |-> parentNodeDbId, content |-> node.content])

\* building the parameters of the INSERT throws: a truthy start_time that is not a
\* date gives an Invalid Date, whose toISOString() throws a RangeError
NodeThrows(node) == Truthy(node.start_time) /\ NewDate(node.start_time) = Invalid

\* the error of a node propagates out of the loop
AfterNodeErrorAbort(rest) == <<>>

\* the try/catch is inside the loop: after the error of a node the loop goes on with
\* the nodes that follow it
AfterNodeError(rest) == rest

\* processContentNodes(contentNodes, entryId, parentNodeDbId): the table after
\* inserting every node, each followed by its children (0 is a null parent); a node
\* that throws is left out with its children
RECURSIVE processContentNodes(_, _, _, _)
processContentNodes(nodes, contentNodes, entryId, parentNodeDbId) ==
  IF contentNodes = <<>> THEN nodes
  ELSE LET node == Head(contentNodes)
           withNode == InsertContentNode(nodes, entryId, parentNodeDbId, node)
           withChildren == processContentNodes(withNode, node.children, entryId, Len(withNode))
       IN IF NodeThrows(node)
          THEN processContentNodes(nodes, AfterNodeError(Tail(contentNodes)), entryId,
                                   parentNodeDbId)
          ELSE processContentNodes(withChildren, Tail(contentNodes), entryId, parentNodeDbId)

\* lifelogs.reduce(..): the latest of updated_at || created_at || end_time || 0 over
\* every lifelog of the batch, starting from the epoch
RECURSIVE LatestEntryTime(_)
LatestEntryTime(lifelogs) ==
  IF lifelogs = <<>> THEN 0
  ELSE LET item == lifelogs[Len(lifelogs)]
           latest == LatestEntryTime(SubSeq(lifelogs, 1, Len(lifelogs) - 1))
           itemTime == NewDate(Or4(item.updated_at, item.created_at, item.end_time, 0))
       IN IF DateGT(itemTime, latest) THEN itemTime ELSE latest

\* the Date whose toISOString() gives a lifelog's day in the aggregation step
StartDate(l) == NewDate(Or3(l.start_time, l.startTime, l.created_at))

\* toISOString() throws a RangeError on the first lifelog whose start is an Invalid Date
AffectedDatesThrow(lifelogs) == \E k \in 1..Len(lifelogs) : StartDate(lifelogs[k]) = Invalid

AffectedDates(lifelogs) == { DateOf(StartDate(lifelogs[k])) : k \in 1..Len(lifelogs) }

EntriesOnDate(lifelogs, date) ==
  Cardinality({ k \in 1..Len(lifelogs) : DateOf(StartDate(lifelogs[k])) = date })

\* the loop over affectedDates: one updateDailyAggregation call per date with the
\* number of fetched items on that date
RECURSIVE UpdateAggregations(_, _, _)
UpdateAggregations(agg, sourceName, itemsOnDate) ==
  IF DOMAIN itemsOnDate = {} THEN agg
  ELSE LET date == CHOOSE d \in DOMAIN itemsOnDate : TRUE
       IN UpdateAggregations(
            updateDailyAggregation(agg, date, sourceName, itemsOnDate[date]),
            sourceName, [d \in DOMAIN itemsOnDate \ {date} |-> itemsOnDate[d]])

\* ----- raw records served by the Bee API
Utterance(id, sa, tx) ==
  [id |-> id, utterance_id |-> Undef, spoken_at |-> sa, timestamp |-> Undef, text |-> tx]
UtteranceLists ==
  { <<>>, <<Utterance(1, 1, "x")>>, <<Utterance(1, 1, "x"), Utterance(2, 1, "y")>>,
    <<Utterance(1, Undef, "x")>>, <<Utterance(1, BadStr, "x"), Utterance(2, 1, "y")>> }

Conversation(id, st, ua, su, us) ==
  [id |-> id, start_time |-> st, startTime |-> Undef, end_time |-> st, endTime |-> Undef,
   updated_at |-> ua, summary |-> su, transcriptions |-> Undef, utterances |-> us]

Fact(id, co, ua) == [id |-> id, content |-> co, updated_at |-> ua, created_at |-> Undef]

\* the conversations a fetch may return: every id with the earliest and the latest
\* modification time, every start time, a second summary with no modification time,
\* the utterance lists, and one more id
RawConversations ==
  { Conversation(id, 1, ua, "a", <<>>) : id \in 0..MaxId, ua \in {1, MaxTime} }
  \cup { Conversation(1, st, 1, "a", <<>>) : st \in RawTimes }
  \cup { Conversation(1, 1, Undef, "b", <<>>) }
  \cup { Conversation(1, 1, 1, "a", us) : us \in UtteranceLists }
  \cup { Conversation(MaxId + 1, 1, 1, "a", <<>>) }

RawFacts ==
  { Fact(id, "x", ua) : id \in 0..MaxId, ua \in {1, MaxTime} } \cup { Fact(1, "y", Undef) }

\* the results object of BeeConnector.fetchData: conversations only, facts only, or
\* one conversation and one fact (todos and locations are not enabled)
BeeResults ==
  { [conversations |-> cs, facts |-> <<>>] : cs \in SeqsUpTo(RawConversations, MaxBatch) }
  \cup { [conversations |-> <<>>, facts |-> fs] : fs \in SeqsUpTo(RawFacts, MaxBatch) }
  \cup { [conversations |-> <<Conversation(1, 1, ua, "a", <<>>)>>, facts |-> <<f>>] :
           ua \in 1..MaxTime, f \in { Fact(1, "x", fa) : fa \in 1..MaxTime } }

\* ----- bee_conversations, bee_utterances, bee_facts (BeeConnector)
\* _getTimestamp(item, fields): the Date of the first truthy field, else the epoch
RECURSIVE getTimestamp(_)
getTimestamp(values) ==
  IF values = <<>> THEN 0
  ELSE IF Truthy(Head(values)) THEN NewDate(Head(values))
  ELSE getTimestamp(Tail(values))

\* the entry _processConversations builds from a raw conversation
ConversationEntry(convo) ==
  [bee_id |-> convo.id,
   start_time |-> NewDate(Or2(convo.start_time, convo.startTime)),
   end_time |-> NewDate(Or2(convo.end_time, convo.endTime)),
   summary |-> convo.summary]

ConversationValid(entry) ==
  /\ Truthy(entry.bee_id)
  /\ entry.start_time # Invalid
  /\ entry.end_time # Invalid

RowsWithBeeId(rows, bee_id) == { k \in 1..Len(rows) : rows[k].bee_id = bee_id }

\* the table replaced by the record being stored
UpsertByBeeIdReplacing(rows, entry) ==
  [rows |-> <<[id |-> 1] @@ entry>>, id |-> 1, inserted |-> rows = <<>>]

\* INSERT INTO bee_conversations / bee_facts .. ON CONFLICT (bee_id) DO UPDATE SET ..
\* RETURNING id, (xmax = 0) AS inserted
UpsertByBeeId(rows, entry) ==
  IF RowsWithBeeId(rows, entry.bee_id) = {}
  THEN [rows |-> Append(rows, [id |-> Len(rows) + 1] @@ entry),
        id |-> Len(rows) + 1, inserted |-> TRUE]
  ELSE LET k == CHOOSE k \in RowsWithBeeId(rows, entry.bee_id) : TRUE
       IN [rows |-> [rows EXCEPT ![k] = [id |-> k] @@ entry],
           id |-> k, inserted |-> FALSE]

UtteranceEntry(utt, dbConvoId) ==
  [conversation_id |-> dbConvoId,
   bee_utterance_id |-> Or2(utt.id, utt.utterance_id),
   text |-> utt.text,
   spoken_at |-> NewDate(Or2(utt.spoken_at, utt.timestamp))]

UtteranceValid(entry) == Truthy(entry.bee_utterance_id) /\ entry.spoken_at # Invalid

\* INSERT INTO bee_utterances .. ON CONFLICT (conversation_id, bee_utterance_id) DO NOTHING
InsertUtterance(rows, entry) ==
  IF \E k \in 1..Len(rows) : /\ rows[k].conversation_id = entry.conversation_id
                             /\ rows[k].bee_utterance_id = entry.bee_utterance_id
  THEN rows
  ELSE Append(rows, entry)

\* _processUtterances(utterances, dbConvoId): the table after the loop
RECURSIVE processUtterances(_, _, _)
processUtterances(rows, utterances, dbConvoId) ==
  IF utterances = <<>> THEN rows
  ELSE LET entry == UtteranceEntry(Head(utterances), dbConvoId)
       IN processUtterances(IF UtteranceValid(entry) THEN InsertUtterance(rows, entry) ELSE rows,
                            Tail(utterances), dbConvoId)

FactEntry(fact) == [bee_id |-> fact.id, content |-> fact.content]

\* the Date whose toISOString() gives a conversation's day in the aggregation step
ConvoDate(c) == NewDate(Or2(c.start_time, c.startTime))

BeeAffectedDatesThrow(conversations) ==
  \E k \in 1..Len(conversations) : ConvoDate(conversations[k]) = Invalid

BeeAffectedDates(conversations) ==
  { DateOf(ConvoDate(conversations[k])) : k \in 1..Len(conversations) }

ConvosOnDate(conversations, date) ==
  Cardinality({ k \in 1..Len(conversations) : DateOf(ConvoDate(conversations[k])) = date })

\* ----- results
ProcessResult(r) ==
  [success |-> TRUE, newEntries |-> r.newEntries, updatedEntries |-> r.updatedEntries,
   errors |-> r.errorCount]

\* BaseConnector.sync's catch block
SyncFailed == [success |-> FALSE, newEntries |-> 0, updatedEntries |-> 0, errors |-> 1]

NothingProcessed == [success |-> TRUE, newEntries |-> 0, updatedEntries |-> 0, errors |-> 0]

Done(r, result) == [r EXCEPT !.pc = "done", !.result = result]

\* ----- the steps of a run, one per await
\* DataSyncManager.syncSource and BaseConnector.sync up to the fetchData call
syncSourceCall(t, sourceName) ==
  /\ run[t].pc = "idle"
  /\ sourceName \in connectors
  /\ run' = [run EXCEPT ![t] =
       [IdleRun EXCEPT !.pc = "fetching", !.source = sourceName,
                       !.syncTimeBefore = getLastSyncTime(system_metadata, sourceName)]]
  /\ UNCHANGED <<limitlessTables, beeTables, system_metadata, daily_aggregations, connectors, walk, validation, apiKeys, manualTables>>

\* the names POST /sync/:source may carry: the two sources, a name that is no key of
\* this.connectors, and a name that Object.prototype defines
RequestedSources == {"limitless", "bee", "nosuch", "constructor"}
ObjectPrototypeKeys == {"constructor"}

\* the result of syncSource for a missing connector: { success: false, message }
NotFound == [success |-> FALSE, newEntries |-> Undef, updatedEntries |-> Undef, errors |-> Undef]

\* syncSource for a name that is no own key of this.connectors (unknown, or disabled
\* and so never registered): this.connectors[sourceName] is undefined and the call
\* returns, unless the name is inherited from Object.prototype: then the lookup gives
\* a value that is not a connector, and connector.isEnabled(), which is outside the
\* try block, throws a TypeError
syncSourceNotRegistered(t, sourceName) ==
  /\ run[t].pc = "idle"
  /\ sourceName \notin connectors
  /\ run' = [run EXCEPT ![t] =
       IF sourceName \in ObjectPrototypeKeys
       THEN [IdleRun EXCEPT !.pc = "done", !.source = sourceName, !.thrown = TRUE]
       ELSE Done([IdleRun EXCEPT !.source = sourceName], NotFound)]
  /\ UNCHANGED <<limitlessTables, beeTables, system_metadata, daily_aggregations, connectors,
                 walk, syncAll, validation, apiKeys, manualTables>>

\* a syncSource call made by the API route or a schedule
syncSource(t, sourceName) == syncSourceCall(t, sourceName) /\ UNCHANGED syncAll

\* fetchData goes on to its requests only when sourceConfig.apiKey is truthy
HasApiKeyIgnored(sourceName) == TRUE
HasApiKey(sourceName) == sourceName \in apiKeys

\* the result of BaseConnector.sync when fetchData returned null
NoNewData == [success |-> TRUE, newEntries |-> 0, updatedEntries |-> 0, errors |-> 0]

\* fetchData of either connector with no API key: it returns null before any request,
\* and sync returns 'No new data fetched.' without calling processData
FetchSkipped(t) ==
  /\ run[t].pc = "fetching"
  /\ ~HasApiKey(run[t].source)
  /\ run' = [run EXCEPT ![t] = Done(@, NoNewData)]
  /\ UNCHANGED <<limitlessTables, beeTables, system_metadata, daily_aggregations, connectors, walk, syncAll, validation, apiKeys, manualTables>>

\* LimitlessConnector.fetchData returns the lifelogs of the pages it walked
FetchReturn(t, lifelogs) ==
  /\ run[t].pc = "fetching"
  /\ run[t].source = "limitless"
  /\ HasApiKey("limitless")
  /\ Len(limitless_content_nodes) + BatchNodes(lifelogs) <= MaxNodes
  /\ run' = [run EXCEPT ![t] =
       IF lifelogs = <<>>
       THEN Done([@ EXCEPT !.fetched = TRUE], NothingProcessed)
       ELSE [@ EXCEPT !.pc = "persisting", !.rawData = lifelogs, !.i = 1, !.fetched = TRUE]]
  /\ UNCHANGED <<limitlessTables, beeTables, system_metadata, daily_aggregations, connectors, walk, syncAll, validation, apiKeys, manualTables>>

\* LimitlessConnector.fetchData rethrows a request error; sync catches it
FetchThrow(t) ==
  /\ run[t].pc = "fetching"
  /\ run[t].source = "limitless"
  /\ HasApiKey("limitless")
  /\ run' = [run EXCEPT ![t] = Done([@ EXCEPT !.fetchFailed = TRUE], SyncFailed)]
  /\ UNCHANGED <<limitlessTables, beeTables, system_metadata, daily_aggregations, connectors, walk, syncAll, validation, apiKeys, manualTables>>

\* the loop left after its first lifelog
AfterLifelogEarly(r) == "advancing_watermark"

\* for (const lifelog of lifelogs): the loop goes on until the last lifelog is done
AfterLifelog(r) == IF r.i = Len(r.rawData) THEN "advancing_watermark" ELSE "persisting"

\* one iteration of processData's loop over the lifelogs; queryOk is whether the
\* store accepts the upsert statement
ProcessLifelog(t, queryOk) ==
  /\ run[t].pc = "persisting"
  /\ run[t].source = "limitless"
  /\ LET r == run[t]
         lifelog == r.rawData[r.i]
         entry == EntryOf(lifelog)
         up == UpsertEntry(limitless_entries, entry)
         next == AfterLifelog(r)
     IN IF ~EntryValid(entry) \/ ~queryOk
        THEN /\ run' = [run EXCEPT ![t] =
                  [r EXCEPT !.errorCount = @ + 1, !.i = @ + 1, !.pc = next,
                            !.outcome = IF EntryValid(entry) THEN "error" ELSE "rejected"]]
             /\ UNCHANGED <<limitless_entries, limitless_content_nodes>>
        ELSE /\ limitless_entries' = up.rows
             /\ limitless_content_nodes' =
                  processContentNodes(limitless_content_nodes, lifelog.contents, up.id, 0)
             /\ run' = [run EXCEPT ![t] =
                  [r EXCEPT !.newEntries = IF up.inserted THEN @ + 1 ELSE @,
                            !.updatedEntries = IF up.inserted THEN @ ELSE @ + 1,
                            !.i = @ + 1, !.pc = next,
                            !.outcome = IF up.inserted THEN "inserted" ELSE "updated"]]
  /\ UNCHANGED <<beeTables, system_metadata, daily_aggregations, connectors, walk, syncAll, validation, apiKeys, manualTables>>

\* processData after the loop: the watermark write, or the return when no lifelog
\* was inserted or updated
AdvanceWatermark(t) ==
  /\ run[t].pc = "advancing_watermark"
  /\ run[t].source = "limitless"
  /\ LET r == run[t]
         latestEntryTime == LatestEntryTime(r.rawData)
     IN IF r.newEntries > 0 \/ r.updatedEntries > 0
        THEN /\ system_metadata' =
                  IF DateGT(latestEntryTime, 0)
                  THEN updateLastSyncTime(system_metadata, r.source, latestEntryTime)
                  ELSE system_metadata
             /\ run' = [run EXCEPT ![t] = [r EXCEPT !.pc = "rolling_up"]]
        ELSE /\ run' = [run EXCEPT ![t] = Done(r, ProcessResult(r))]
             /\ UNCHANGED system_metadata
  /\ UNCHANGED <<limitlessTables, beeTables, daily_aggregations, connectors, walk, syncAll, validation, apiKeys, manualTables>>

\* processData's daily aggregation step and its return to sync
UpdateRollups(t) ==
  /\ run[t].pc = "rolling_up"
  /\ run[t].source = "limitless"
  /\ LET r == run[t]
     IN IF AffectedDatesThrow(r.rawData)
        THEN /\ run' = [run EXCEPT ![t] = Done(r, SyncFailed)]
             /\ UNCHANGED daily_aggregations
        ELSE /\ daily_aggregations' =
                  UpdateAggregations(daily_aggregations, r.source,
                    [d \in AffectedDates(r.rawData) |-> EntriesOnDate(r.rawData, d)])
             /\ run' = [run EXCEPT ![t] = Done(r, ProcessResult(r))]
  /\ UNCHANGED <<limitlessTables, beeTables, system_metadata, connectors, walk, syncAll, validation, apiKeys, manualTables>>

\* BeeConnector.fetchData returns its results object; processData reads the watermark
\* fetchData when every page request is answered with an error: _fetchPaginatedData
\* catches the error, stops its loop and returns what it has collected, nothing, so
\* fetchData returns results with every list empty
BeeFetchFails(t) ==
  /\ run[t].pc = "fetching"
  /\ run[t].source = "bee"
  /\ HasApiKey("bee")
  /\ run' = [run EXCEPT ![t] =
       [@ EXCEPT !.pc = "advancing_watermark",
                 !.rawData = <<>>, !.facts = <<>>, !.i = 1,
                 !.fetched = TRUE, !.fetchFailed = TRUE,
                 !.latestSyncTimestamp = getLastSyncTime(system_metadata, "bee")]]
  /\ UNCHANGED <<limitlessTables, beeTables, system_metadata, daily_aggregations, connectors, walk, syncAll, validation, apiKeys, manualTables>>

BeeFetchReturn(t, data) ==
  /\ run[t].pc = "fetching"
  /\ run[t].source = "bee"
  /\ HasApiKey("bee")
  /\ run' = [run EXCEPT ![t] =
       [@ EXCEPT !.pc = IF data.conversations # <<>> THEN "persisting"
                        ELSE IF data.facts # <<>> THEN "persisting_facts"
                        ELSE "advancing_watermark",
                 !.rawData = data.conversations, !.facts = data.facts, !.i = 1,
                 !.fetched = TRUE,
                 !.latestSyncTimestamp = getLastSyncTime(system_metadata, "bee")]]
  /\ UNCHANGED <<limitlessTables, beeTables, system_metadata, daily_aggregations, connectors, walk, syncAll, validation, apiKeys, manualTables>>

\* the end of _processConversations or _processFacts: processData keeps the later of
\* its latestSyncTimestamp and the group's latest item timestamp
AfterGroup(r, latestItemTimestamp, following) ==
  [r EXCEPT !.pc = following, !.i = 1, !.latestItemTimestamp = 0,
            !.latestSyncTimestamp =
               IF DateGT(latestItemTimestamp, @) THEN latestItemTimestamp ELSE @]

\* one iteration of the loop of _processConversations
ProcessConversation(t, queryOk) ==
  /\ run[t].pc = "persisting"
  /\ run[t].source = "bee"
  /\ LET r == run[t]
         convo == r.rawData[r.i]
         itemTimestamp == getTimestamp(<<convo.updated_at, convo.end_time, convo.start_time>>)
         latestItemTimestamp ==
           IF DateGT(itemTimestamp, r.latestItemTimestamp) THEN itemTimestamp
           ELSE r.latestItemTimestamp
         entry == ConversationEntry(convo)
         up == UpsertByBeeId(bee_conversations, entry)
         utterances == Or2(convo.transcriptions, convo.utterances)
         stepped(q) ==
           IF r.i = Len(r.rawData)
           THEN AfterGroup(q, latestItemTimestamp,
                           IF r.facts # <<>> THEN "persisting_facts" ELSE "advancing_watermark")
           ELSE [q EXCEPT !.i = @ + 1, !.latestItemTimestamp = latestItemTimestamp]
     IN IF ~ConversationValid(entry) \/ ~queryOk
        THEN /\ run' = [run EXCEPT ![t] =
                  stepped([r EXCEPT !.errorCount = @ + 1,
                             !.outcome = IF ConversationValid(entry) THEN "error" ELSE "rejected"])]
             /\ UNCHANGED <<bee_conversations, bee_utterances>>
        ELSE /\ bee_conversations' = up.rows
             /\ bee_utterances' = processUtterances(bee_utterances, utterances, up.id)
             /\ run' = [run EXCEPT ![t] =
                  stepped([r EXCEPT !.newEntries = IF up.inserted THEN @ + 1 ELSE @,
                             !.updatedEntries = IF up.inserted THEN @ ELSE @ + 1,
                             !.outcome = IF up.inserted THEN "inserted" ELSE "updated"])]
  /\ UNCHANGED <<limitlessTables, bee_facts, system_metadata, daily_aggregations, connectors, walk, syncAll, validation, apiKeys, manualTables>>

\* one iteration of the loop of _processFacts
ProcessFact(t, queryOk) ==
  /\ run[t].pc = "persisting_facts"
  /\ run[t].source = "bee"
  /\ LET r == run[t]
         fact == r.facts[r.i]
         itemTimestamp == getTimestamp(<<fact.updated_at, fact.created_at>>)
         latestItemTimestamp ==
           IF DateGT(itemTimestamp, r.latestItemTimestamp) THEN itemTimestamp
           ELSE r.latestItemTimestamp
         entry == FactEntry(fact)
         up == UpsertByBeeId(bee_facts, entry)
         stepped(q) ==
           IF r.i = Len(r.facts)
           THEN AfterGroup(q, latestItemTimestamp, "advancing_watermark")
           ELSE [q EXCEPT !.i = @ + 1, !.latestItemTimestamp = latestItemTimestamp]
     IN IF ~Truthy(entry.bee_id) \/ ~queryOk
        THEN /\ run' = [run EXCEPT ![t] =
                  stepped([r EXCEPT !.errorCount = @ + 1,
                             !.outcome = IF Truthy(entry.bee_id) THEN "error" ELSE "rejected"])]
             /\ UNCHANGED bee_facts
        ELSE /\ bee_facts' = up.rows
             /\ run' = [run EXCEPT ![t] =
                  stepped([r EXCEPT !.newEntries = IF up.inserted THEN @ + 1 ELSE @,
                             !.updatedEntries = IF up.inserted THEN @ ELSE @ + 1,
                             !.outcome = IF up.inserted THEN "inserted" ELSE "updated"])]
  /\ UNCHANGED <<limitlessTables, bee_conversations, bee_utterances, system_metadata,
                 daily_aggregations, connectors, walk, syncAll, validation, apiKeys, manualTables>>

\* processData after the groups: latestSyncTimestamp > await this.getLastSyncTime()
BeeCompareWatermark(t) ==
  /\ run[t].pc = "advancing_watermark"
  /\ run[t].source = "bee"
  /\ run' = [run EXCEPT ![t] =
       [@ EXCEPT !.pc =
          IF DateGT(run[t].latestSyncTimestamp, getLastSyncTime(system_metadata, "bee"))
          THEN "writing_watermark" ELSE "rolling_up"]]
  /\ UNCHANGED <<limitlessTables, beeTables, system_metadata, daily_aggregations, connectors, walk, syncAll, validation, apiKeys, manualTables>>

\* await this.updateLastSyncTime(latestSyncTimestamp)
BeeAdvanceWatermark(t) ==
  /\ run[t].pc = "writing_watermark"
  /\ run[t].source = "bee"
  /\ system_metadata' = updateLastSyncTime(system_metadata, "bee", run[t].latestSyncTimestamp)
  /\ run' = [run EXCEPT ![t] = [@ EXCEPT !.pc = "rolling_up"]]
  /\ UNCHANGED <<limitlessTables, beeTables, daily_aggregations, connectors, walk, syncAll, validation, apiKeys, manualTables>>

\* processData's daily aggregation step over the fetched conversations, and its
\* return to sync
BeeUpdateRollups(t) ==
  /\ run[t].pc = "rolling_up"
  /\ run[t].source = "bee"
  /\ LET r == run[t]
     IN IF BeeAffectedDatesThrow(r.rawData)
        THEN /\ run' = [run EXCEPT ![t] = Done(r, SyncFailed)]
             /\ UNCHANGED daily_aggregations
        ELSE /\ daily_aggregations' =
                  UpdateAggregations(daily_aggregations, r.source,
                    [d \in BeeAffectedDates(r.rawData) |-> ConvosOnDate(r.rawData, d)])
             /\ run' = [run EXCEPT ![t] = Done(r, ProcessResult(r))]
  /\ UNCHANGED <<limitlessTables, beeTables, system_metadata, connectors, walk, syncAll, validation, apiKeys, manualTables>>

\* syncSource returns its result to the caller
syncSourceReturn(t) ==
  /\ run[t].pc = "done"
  /\ run' = [run EXCEPT ![t] = IdleRun]
  /\ UNCHANGED <<limitlessTables, beeTables, system_metadata, daily_aggregations, connectors, walk, validation, apiKeys, manualTables>>

\* the result goes back to the API route or the schedule that made the call
Return(t) == syncSourceReturn(t) /\ UNCHANGED syncAll

\* ----- the day view (GET /api/calendar/day/:date) and AIProvider
\* _fetchDataForSummary and _constructPrompt: the template summary of a day carries
\* the two counts stored for it, 0 where there is no row
TemplateSummary(agg, date) ==
  <<AggregationRow(agg, date).limitless_entry_count,
    AggregationRow(agg, date).bee_conversation_count>>

\* the summary written as a fresh row that replaces the stored one
StoreSummaryReplace(agg, date) ==
  PutRow(agg, date, [NewAggregation EXCEPT !.ai_summary = TemplateSummary(agg, date)])

\* _generateTemplateSummary: INSERT INTO daily_aggregations (date, ai_summary)
\* .. ON CONFLICT (date) DO UPDATE SET ai_summary = EXCLUDED.ai_summary
StoreSummary(agg, date) ==
  PutRow(agg, date, [AggregationRow(agg, date) EXCEPT !.ai_summary = TemplateSummary(agg, date)])

\* the day view of a date that has no stored summary generates and stores one
DayView(date) ==
  /\ AggregationRow(daily_aggregations, date).ai_summary = <<>>
  /\ daily_aggregations' = StoreSummary(daily_aggregations, date)
  /\ UNCHANGED <<limitlessTables, beeTables, system_metadata, connectors, run, walk, syncAll, validation, apiKeys, manualTables>>

\* ----- the pagination loops of LimitlessConnector.fetchData and
\* BeeConnector._fetchPaginatedData
\* options.limit || 50 and options.maxPages || 10
Limit == 50
MaxPages == 10

\* the item counts a page may have: empty, short, full
PageSizes == {0, 12, Limit}

\* the loop with the page limit tested before page++ instead of after it
LimitlessPageLateBound(w, n, next) ==
  LET got == [w EXCEPT !.requests = @ + 1, !.served = Append(@, [n |-> n, next |-> next])]
  IN IF n > 0
     THEN LET more == [got EXCEPT !.allData = Append(@, n), !.cursor = next]
          IN IF ~next /\ n < Limit THEN [more EXCEPT !.pc = "returned"]
             ELSE IF w.page > MaxPages THEN [more EXCEPT !.page = @ + 1, !.pc = "returned"]
             ELSE IF next THEN [more EXCEPT !.page = @ + 1]
             ELSE [more EXCEPT !.page = @ + 1, !.pc = "returned"]
     ELSE [got EXCEPT !.pc = "returned"]

\* one pass of the do .. while (cursor) loop of LimitlessConnector.fetchData on a
\* response of n lifelogs carrying a next cursor or none
LimitlessPage(w, n, next) ==
  LET got == [w EXCEPT !.requests = @ + 1, !.served = Append(@, [n |-> n, next |-> next])]
  IN IF n > 0
     THEN LET more == [got EXCEPT !.allData = Append(@, n), !.cursor = next]
          IN IF ~next /\ n < Limit THEN [more EXCEPT !.pc = "returned"]
             ELSE IF w.page + 1 > MaxPages THEN [more EXCEPT !.page = @ + 1, !.pc = "returned"]
             ELSE IF next THEN [more EXCEPT !.page = @ + 1]
             ELSE [more EXCEPT !.page = @ + 1, !.pc = "returned"]
     ELSE [got EXCEPT !.pc = "returned"]

\* one pass of the while (keepFetching) loop of BeeConnector._fetchPaginatedData on
\* a response of n items; the loop never reads a next indicator
BeePage(w, n, next) ==
  LET got == [w EXCEPT !.requests = @ + 1, !.served = Append(@, [n |-> n, next |-> next])]
  IN IF n > 0
     THEN LET more == [got EXCEPT !.allData = Append(@, n)]
          IN IF n < Limit THEN [more EXCEPT !.pc = "returned"]
             ELSE IF w.page + 1 > MaxPages THEN [more EXCEPT !.page = @ + 1, !.pc = "returned"]
             ELSE [more EXCEPT !.page = @ + 1]
     ELSE [got EXCEPT !.pc = "returned"]

\* fetchData (Limitless) or _fetchPaginatedData (Bee) is entered
StartWalk(connector) ==
  /\ walk.pc = "idle"
  /\ walk' = [IdleWalk EXCEPT !.pc = "fetching", !.connector = connector]
  /\ UNCHANGED engineVars

\* the source answers the request for the current page
PageServed(n, next) ==
  /\ walk.pc = "fetching"
  /\ walk' = IF walk.connector = "limitless" THEN LimitlessPage(walk, n, next)
             ELSE BeePage(walk, n, next)
  /\ UNCHANGED engineVars

\* a failed request sent again by the loop
PageFailsRetried ==
  /\ walk.pc = "fetching"
  /\ walk.requests - Len(walk.served) < 2
  /\ walk' = [walk EXCEPT !.requests = @ + 1]
  /\ UNCHANGED engineVars

\* the request for the current page fails: Limitless rethrows and returns nothing,
\* Bee stops the loop and returns what it has
PageFails ==
  /\ walk.pc = "fetching"
  /\ walk' = IF walk.connector = "limitless"
             THEN [walk EXCEPT !.requests = @ + 1, !.pc = "thrown", !.allData = <<>>]
             ELSE [walk EXCEPT !.requests = @ + 1, !.pc = "returned"]
  /\ UNCHANGED engineVars

\* the caller takes the result
WalkDone ==
  /\ walk.pc \in {"returned", "thrown"}
  /\ walk' = IdleWalk
  /\ UNCHANGED engineVars

\* the number of items of the pages collected
RECURSIVE Total(_)
Total(pages) == IF pages = <<>> THEN 0 ELSE Head(pages) + Total(Tail(pages))

\* BeeConnector.fetchData after the conversations were fetched: the loop over
\* results.conversations that requests the detail of each
StartDetails ==
  /\ walk.pc = "returned"
  /\ walk.connector = "bee"
  /\ walk.allData # <<>>
  /\ walk' = [IdleWalk EXCEPT !.pc = "detailing", !.connector = "bee",
                              !.toDetail = Total(walk.allData)]
  /\ UNCHANGED engineVars

\* one pass of the detail loop: GET /conversations/<id> is answered, and the detail
\* (ok) or, from the catch block, the basic conversation is pushed
DetailAnswered(ok) ==
  /\ walk.pc = "detailing"
  /\ walk.toDetail > 0
  /\ walk' = [walk EXCEPT !.toDetail = @ - 1, !.detailRequests = @ + 1, !.detailed = @ + 1]
  /\ UNCHANGED engineVars

\* the detail loop is over
DetailsDone ==
  /\ walk.pc = "detailing"
  /\ walk.toDetail = 0
  /\ walk' = IdleWalk
  /\ UNCHANGED engineVars

NextWalker ==
  \/ \E connector \in {"limitless", "bee"} : StartWalk(connector)
  \/ \E n \in PageSizes, next \in BOOLEAN : PageServed(n, next)
  \/ PageFails
  \/ WalkDone
  \/ StartDetails
  \/ \E ok \in BOOLEAN : DetailAnswered(ok)
  \/ DetailsDone

SpecWalker == Init /\ [][NextWalker]_vars

\* every request of the loop is answered, with a page or with an error
PageAnswered == (\E n \in PageSizes, next \in BOOLEAN : PageServed(n, next)) \/ PageFails
SpecWalkerFair == SpecWalker /\ WF_vars(PageAnswered)

\* the steps the program takes by itself; axios.create is given no timeout, so a
\* request stays pending until the source answers, and no step of the program ends it
ProgramStep == WalkDone \/ StartDetails \/ DetailsDone
SpecWalkerStalled == SpecWalker /\ WF_vars(ProgramStep)

NoRunActive == \A t \in Triggers : run[t].pc = "idle"

\* runs requested one at a time: no schedule is configured and the API client
\* waits for each response
\* ----- concurrent runs of one source: the cron job and the on-demand API both call
\* syncSource, which holds no lock; the steps of the two calls interleave at every await.
\* The source serves one lifelog, or one conversation, any number of times
ReplayLifelogs == { Lifelog(1, 1, Undef, 1, 1, "a", <<>>) }
ReplayBatches == SeqsUpTo(ReplayLifelogs, MaxBatch)
ReplayResults ==
  { [conversations |-> cs, facts |-> <<>>] :
      cs \in SeqsUpTo({ Conversation(1, 1, 1, "a", <<>>) }, MaxBatch) }

NextConcurrent ==
  \/ \E t \in Triggers :
       \/ \E sourceName \in {"limitless", "bee"} : syncSource(t, sourceName)
       \/ /\ run[t].pc = "fetching" /\ run[t].source = "limitless"
          /\ \E lifelogs \in ReplayBatches : FetchReturn(t, lifelogs)
       \/ FetchThrow(t)
       \/ \E queryOk \in BOOLEAN : ProcessLifelog(t, queryOk)
       \/ AdvanceWatermark(t)
       \/ UpdateRollups(t)
       \/ /\ run[t].pc = "fetching" /\ run[t].source = "bee"
          /\ \E data \in ReplayResults : BeeFetchReturn(t, data)
       \/ \E queryOk \in BOOLEAN : ProcessConversation(t, queryOk)
       \/ BeeCompareWatermark(t)
       \/ BeeAdvanceWatermark(t)
       \/ BeeUpdateRollups(t)
       \/ Return(t)
  \/ DayView(DateOf(1))

SpecConcurrent == Init /\ [][NextConcurrent]_vars

Next ==
  \E t \in {"api"} :
    \/ NoRunActive /\ \E sourceName \in {"limitless", "bee"} : syncSource(t, sourceName)
    \/ NoRunActive /\ \E sourceName \in RequestedSources : syncSourceNotRegistered(t, sourceName)
    \/ /\ run[t].pc = "fetching" /\ run[t].source = "limitless"
       /\ \E lifelogs \in LifelogBatches : FetchReturn(t, lifelogs)
    \/ FetchThrow(t)
    \/ \E queryOk \in BOOLEAN : ProcessLifelog(t, queryOk)
    \/ AdvanceWatermark(t)
    \/ UpdateRollups(t)
    \/ /\ run[t].pc = "fetching" /\ run[t].source = "bee"
       /\ \E data \in BeeResults : BeeFetchReturn(t, data)
    \/ BeeFetchFails(t)
    \/ \E queryOk \in BOOLEAN : ProcessConversation(t, queryOk)
    \/ \E queryOk \in BOOLEAN : ProcessFact(t, queryOk)
    \/ BeeCompareWatermark(t)
    \/ BeeAdvanceWatermark(t)
    \/ BeeUpdateRollups(t)
    \/ Return(t)

Spec == Init /\ [][Next]_vars

\* ----- the statements on daily_aggregations, as the store executes them
\* the statement of updateDailyAggregation executed for a date, a source and a count
ApplyAggregation(date, sourceType, itemCount) ==
  /\ daily_aggregations' = AggregationUpsert(daily_aggregations, date, sourceType, itemCount)
  /\ UNCHANGED <<limitlessTables, beeTables, system_metadata, connectors, run, walk, syncAll, validation, apiKeys, manualTables>>

AggregationSources == {"limitless", "bee", "weather", "mood"}

\* apply calls and summary writes on one date, in any order
NextRollup ==
  \/ \E sourceType \in AggregationSources, itemCount \in 0..MaxBatch :
       ApplyAggregation(DateOf(1), sourceType, itemCount)
  \/ DayView(DateOf(1))

SpecRollup == Init /\ [][NextRollup]_vars

\* ----- DateNormalizer.isValidYYYYMMDD
\* a string is the sequence of its characters
DigitChars == <<"0", "1", "2", "3", "4", "5", "6", "7", "8", "9">>
IsDigit(c) == \E n \in 1..10 : DigitChars[n] = c
DigitValue(c) == (CHOOSE n \in 1..10 : DigitChars[n] = c) - 1
TwoDigits(n) == <<DigitChars[(n \div 10) + 1], DigitChars[(n % 10) + 1]>>
Str(chars) == [kind |-> "string", chars |-> chars]

\* the arguments: null, the empty string, a word, and for every year, month 0..13
\* and day 0..31 the string with hyphens, the string with slashes and the string
\* with a two-digit year
Years == {2023, 2024}
Months == 0..13
Days == 0..31
DateStrings ==
  { NullArg, Str(<<>>), Str(<<"t", "e", "s", "t">>) }
  \cup { Str(TwoDigits(y \div 100) \o TwoDigits(y % 100) \o <<sep>> \o TwoDigits(m)
             \o <<sep>> \o TwoDigits(d)) :
           y \in Years, m \in Months, d \in Days, sep \in {"-", "/"} }
  \cup { Str(TwoDigits(y % 100) \o <<"-">> \o TwoDigits(m) \o <<"-">> \o TwoDigits(d)) :
           y \in Years, m \in Months, d \in Days }

\* /^\d{4}-\d{2}-\d{2}$/.test(dateString)
MatchesShape(chars) ==
  /\ Len(chars) = 10
  /\ \A k \in {1, 2, 3, 4, 6, 7, 9, 10} : IsDigit(chars[k])
  /\ chars[5] = "-"
  /\ chars[8] = "-"

\* isValidYYYYMMDD(dateString): false for a falsy argument (null, ''), else the
\* result of the regular expression
isValidYYYYMMDD(dateString) ==
  IF dateString.kind = "null" \/ dateString.chars = <<>> THEN FALSE
  ELSE MatchesShape(dateString.chars)

\* the function is called on an argument
Validate ==
  /\ ~validation.called
  /\ validation' = [validation EXCEPT !.called = TRUE,
                                      !.result = isValidYYYYMMDD(validation.dateString)]
  /\ UNCHANGED <<limitlessTables, beeTables, system_metadata, daily_aggregations, connectors,
                 run, walk, syncAll, apiKeys, manualTables>>

InitValidation ==
  /\ walk = IdleWalk
  /\ syncAll = IdleSyncAll
  /\ validation \in { [IdleValidation EXCEPT !.dateString = s] : s \in DateStrings }
  /\ apiKeys = {"limitless", "bee"}
  /\ weather_entries = <<>>
  /\ weather = [t \in Triggers |-> IdleWeather]
  /\ mood_entries = <<>>
  /\ mood = IdleMood
  /\ limitless_entries = <<>>
  /\ limitless_content_nodes = <<>>
  /\ bee_conversations = <<>>
  /\ bee_utterances = <<>>
  /\ bee_facts = <<>>
  /\ connectors = {"limitless", "bee"}
  /\ system_metadata = EmptyTable
  /\ daily_aggregations = EmptyTable
  /\ run = [t \in Triggers |-> IdleRun]

NextValidation == Validate

SpecValidation == InitValidation /\ [][NextValidation]_vars

\* ----- syncAllSources
\* Object.keys(this.connectors): the keys in the order _initializeConnectors adds them
SourceOrder == <<"limitless", "bee">>
ConnectorKeys == SelectSeq(SourceOrder, LAMBDA sourceName : sourceName \in connectors)

\* a loop that gives up at the first source whose run fails
RemainingSourcesAbort(pending, result) == IF result.success THEN Tail(pending) ELSE <<>>

\* for (const sourceName of Object.keys(this.connectors)): the loop goes on to the next
\* key whatever the result of the call was
RemainingSources(pending, result) == Tail(pending)

\* syncAllSources is called: results = {} and the loop starts
syncAllSources ==
  /\ syncAll.pc = "idle"
  /\ NoRunActive
  /\ syncAll' = [pc |-> "looping", pending |-> ConnectorKeys, results |-> EmptyTable]
  /\ UNCHANGED <<limitlessTables, beeTables, system_metadata, daily_aggregations, connectors,
                 run, walk, validation, apiKeys, manualTables>>

\* one iteration up to its await: this.syncSource(sourceName, options) is called
SyncAllCall(t) ==
  /\ syncAll.pc = "looping"
  /\ syncAll.pending # <<>>
  /\ syncSourceCall(t, Head(syncAll.pending))
  /\ syncAll' = [syncAll EXCEPT !.pc = "awaiting"]

\* the awaited call returns: results[sourceName] = its result
SyncAllCollect(t) ==
  /\ syncAll.pc = "awaiting"
  /\ syncSourceReturn(t)
  /\ syncAll' = [syncAll EXCEPT
       !.pc = "looping",
       !.results = PutRow(@, Head(syncAll.pending), run[t].result),
       !.pending = RemainingSources(@, run[t].result)]

\* the loop is over: return results
SyncAllReturn ==
  /\ syncAll.pc = "looping"
  /\ syncAll.pending = <<>>
  /\ syncAll' = [syncAll EXCEPT !.pc = "returned"]
  /\ UNCHANGED <<limitlessTables, beeTables, system_metadata, daily_aggregations, connectors,
                 run, walk, validation, apiKeys, manualTables>>

\* the caller has the map
SyncAllDone ==
  /\ syncAll.pc = "returned"
  /\ syncAll' = IdleSyncAll
  /\ UNCHANGED <<limitlessTables, beeTables, system_metadata, daily_aggregations, connectors,
                 run, walk, validation, apiKeys, manualTables>>

\* any subset of the two sources may be enabled
InitSyncAll ==
  /\ walk = IdleWalk
  /\ syncAll = IdleSyncAll
  /\ validation = IdleValidation
  /\ apiKeys = {"limitless", "bee"}
  /\ weather_entries = <<>>
  /\ weather = [t \in Triggers |-> IdleWeather]
  /\ mood_entries = <<>>
  /\ mood = IdleMood
  /\ limitless_entries = <<>>
  /\ limitless_content_nodes = <<>>
  /\ bee_conversations = <<>>
  /\ bee_utterances = <<>>
  /\ bee_facts = <<>>
  /\ connectors \in SUBSET {"limitless", "bee"}
  /\ system_metadata = EmptyTable
  /\ daily_aggregations = EmptyTable
  /\ run = [t \in Triggers |-> IdleRun]

\* a configuration in which a source can be enabled with or without an API key
InitCredentials ==
  /\ walk = IdleWalk
  /\ syncAll = IdleSyncAll
  /\ validation = IdleValidation
  /\ limitless_entries = <<>>
  /\ limitless_content_nodes = <<>>
  /\ bee_conversations = <<>>
  /\ bee_utterances = <<>>
  /\ bee_facts = <<>>
  /\ connectors \in {{"limitless"}, {"bee"}}
  /\ apiKeys \in SUBSET connectors
  /\ weather_entries = <<>>
  /\ weather = [t \in Triggers |-> IdleWeather]
  /\ mood_entries = <<>>
  /\ mood = IdleMood
  /\ system_metadata = EmptyTable
  /\ daily_aggregations = EmptyTable
  /\ run = [t \in Triggers |-> IdleRun]

\* syncSource requests through the API, one at a time, under either configuration
NextCredentials ==
  \/ \E sourceName \in {"limitless", "bee"} : syncSource("api", sourceName)
  \/ FetchSkipped("api")
  \/ /\ run["api"].pc = "fetching" /\ run["api"].source = "limitless"
     /\ \E lifelogs \in ReplayBatches : FetchReturn("api", lifelogs)
  \/ FetchThrow("api")
  \/ \E queryOk \in BOOLEAN : ProcessLifelog("api", queryOk)
  \/ AdvanceWatermark("api")
  \/ UpdateRollups("api")
  \/ /\ run["api"].pc = "fetching" /\ run["api"].source = "bee"
     /\ \E data \in ReplayResults : BeeFetchReturn("api", data)
  \/ BeeFetchFails("api")
  \/ \E queryOk \in BOOLEAN : ProcessConversation("api", queryOk)
  \/ BeeCompareWatermark("api")
  \/ BeeAdvanceWatermark("api")
  \/ BeeUpdateRollups("api")
  \/ Return("api")

SpecCredentials == InitCredentials /\ [][NextCredentials]_vars

\* POST /sync-all requests, one at a time; every run is one started by the loop
NextSyncAll ==
  \/ syncAllSources
  \/ SyncAllCall("api")
  \/ SyncAllCollect("api")
  \/ SyncAllReturn
  \/ SyncAllDone
  \/ /\ run["api"].pc = "fetching" /\ run["api"].source = "limitless"
     /\ \E lifelogs \in ReplayBatches : FetchReturn("api", lifelogs)
  \/ FetchThrow("api")
  \/ \E queryOk \in BOOLEAN : ProcessLifelog("api", queryOk)
  \/ AdvanceWatermark("api")
  \/ UpdateRollups("api")
  \/ /\ run["api"].pc = "fetching" /\ run["api"].source = "bee"
     /\ \E data \in ReplayResults : BeeFetchReturn("api", data)
  \/ BeeFetchFails("api")
  \/ \E queryOk \in BOOLEAN : ProcessConversation("api", queryOk)
  \/ BeeCompareWatermark("api")
  \/ BeeAdvanceWatermark("api")
  \/ BeeUpdateRollups("api")

SpecSyncAll == InitSyncAll /\ [][NextSyncAll]_vars

\* ----- weather_entries (WeatherConnector)
\* the days and places a weather run can be asked for; options.date can also be a
\* string that is no date
WeatherDates == {DateOf(1), DateOf(3)}
Locations == {"home", "away"}
Conditions == {"Sunny", "Cloudy"}

WeatherRows(rows, date, location) ==
  { k \in 1..Len(rows) : rows[k].date = date /\ rows[k].location = location }

\* the statement without its conflict target: a plain INSERT
UpsertWeatherInsertOnly(rows, entry) == Append(rows, entry)

\* INSERT .. ON CONFLICT (date, location) DO UPDATE SET ..: the row of that day and
\* place is overwritten, or a new row is added
UpsertWeather(rows, entry) ==
  IF WeatherRows(rows, entry.date, entry.location) = {}
  THEN Append(rows, entry)
  ELSE [k \in 1..Len(rows) |->
          IF k \in WeatherRows(rows, entry.date, entry.location) THEN entry ELSE rows[k]]

WeatherDone(r, result) == [r EXCEPT !.pc = "done", !.result = result]

\* sync up to the request of fetchData: no API key, or a stored row for the day and
\* place without forceRefresh, ends the run with 'No new data fetched.'; an option
\* date that is no date makes toISOString throw, and a failing SELECT throws too
WeatherFetchData(t, date, location, forceRefresh, queryOk) ==
  /\ weather[t].pc = "idle"
  /\ "weather" \in connectors
  /\ LET r == [weather[t] EXCEPT !.date = date, !.location = location,
                                 !.forceRefresh = forceRefresh]
     IN weather' = [weather EXCEPT ![t] =
          IF ~HasApiKey("weather") THEN WeatherDone(r, NoNewData)
          ELSE IF NewDate(date) = Invalid \/ ~queryOk THEN WeatherDone(r, SyncFailed)
          ELSE IF WeatherRows(weather_entries, date, location) # {} /\ ~forceRefresh
               THEN WeatherDone(r, NoNewData)
          ELSE [r EXCEPT !.pc = "requesting"]]
  /\ UNCHANGED <<limitlessTables, beeTables, system_metadata, daily_aggregations, connectors,
                 run, walk, syncAll, validation, apiKeys, weather_entries, mood_entries, mood>>

\* apiClient.get('/weather') answers or fails; fetchData rethrows a failure
WeatherResponse(t, ok, condition) ==
  /\ weather[t].pc = "requesting"
  /\ weather' = [weather EXCEPT ![t] =
       IF ok THEN [@ EXCEPT !.pc = "storing", !.requests = @ + 1, !.weatherData = condition]
       ELSE WeatherDone([@ EXCEPT !.requests = @ + 1], SyncFailed)]
  /\ UNCHANGED <<limitlessTables, beeTables, system_metadata, daily_aggregations, connectors,
                 run, walk, syncAll, validation, apiKeys, weather_entries, mood_entries, mood>>

\* processData: the upsert, the count it reports from RETURNING (xmax = 0), and the
\* rollup call; a failing statement is caught and counted
WeatherProcessData(t, queryOk) ==
  /\ weather[t].pc = "storing"
  /\ LET r == weather[t]
         entry == [date |-> r.date, location |-> r.location, condition |-> r.weatherData]
         inserted == WeatherRows(weather_entries, r.date, r.location) = {}
     IN IF queryOk
        THEN /\ weather_entries' = UpsertWeather(weather_entries, entry)
             /\ daily_aggregations' =
                  updateDailyAggregation(daily_aggregations, r.date, "weather", 1)
             /\ weather' = [weather EXCEPT ![t] = WeatherDone(r,
                  [success |-> TRUE, newEntries |-> IF inserted THEN 1 ELSE 0,
                   updatedEntries |-> IF inserted THEN 0 ELSE 1, errors |-> 0])]
        ELSE /\ weather' = [weather EXCEPT ![t] = WeatherDone(r,
                  [success |-> TRUE, newEntries |-> 0, updatedEntries |-> 0, errors |-> 1])]
             /\ UNCHANGED <<weather_entries, daily_aggregations>>
  /\ UNCHANGED <<limitlessTables, beeTables, system_metadata, connectors,
                 run, walk, syncAll, validation, apiKeys, mood_entries, mood>>

\* the caller has the result
WeatherReturn(t) ==
  /\ weather[t].pc = "done"
  /\ weather' = [weather EXCEPT ![t] = IdleWeather]
  /\ UNCHANGED <<limitlessTables, beeTables, system_metadata, daily_aggregations, connectors,
                 run, walk, syncAll, validation, apiKeys, weather_entries, mood_entries, mood>>

\* the weather source enabled, with or without its API key
InitWeather ==
  /\ walk = IdleWalk
  /\ syncAll = IdleSyncAll
  /\ validation = IdleValidation
  /\ limitless_entries = <<>>
  /\ limitless_content_nodes = <<>>
  /\ bee_conversations = <<>>
  /\ bee_utterances = <<>>
  /\ bee_facts = <<>>
  /\ connectors = {"weather"}
  /\ apiKeys \in SUBSET connectors
  /\ system_metadata = EmptyTable
  /\ daily_aggregations = EmptyTable
  /\ run = [t \in Triggers |-> IdleRun]
  /\ weather_entries = <<>>
  /\ weather = [t \in Triggers |-> IdleWeather]
  /\ mood_entries = <<>>
  /\ mood = IdleMood

\* the cron job runs the sync for today at the configured location; a caller of
\* syncSource can pass a date, a location and forceRefresh; the two can overlap
NextWeather ==
  \/ \E date \in WeatherDates, queryOk \in BOOLEAN :
       WeatherFetchData("cron", date, "home", FALSE, queryOk)
  \/ \E date \in WeatherDates \cup {BadStr}, location \in Locations,
        forceRefresh \in BOOLEAN, queryOk \in BOOLEAN :
       WeatherFetchData("api", date, location, forceRefresh, queryOk)
  \/ \E t \in Triggers, ok \in BOOLEAN, condition \in Conditions :
       WeatherResponse(t, ok, condition)
  \/ \E t \in Triggers, queryOk \in BOOLEAN : WeatherProcessData(t, queryOk)
  \/ \E t \in Triggers : WeatherReturn(t)

SpecWeather == InitWeather /\ [][NextWeather]_vars

\* ----- mood_entries (MoodConnector, POST /api/data/mood)
\* the date of a request body: absent, a string that is no date, or a day
MoodDates == {Undef, BadStr, DateOf(1), DateOf(3)}

\* the mood_score of a request body: absent, null, or a number with its whole part
\* and its first decimal
Number(whole, tenths) == [kind |-> "number", whole |-> whole, tenths |-> tenths]
MoodScores ==
  {[kind |-> "undefined"], [kind |-> "null"],
   Number(0, 5), Number(1, 0), Number(5, 0), Number(10, 0), Number(10, 5), Number(11, 0)}

\* parseInt(mood_score, 10): the digits before the decimal point; NaN for null
parseIntIsNaN(v) == v.kind # "number"
parseInt(v) == v.whole

\* isNaN(entry.mood_score) || entry.mood_score < 1 || entry.mood_score > 10
ScoreInvalid(v) == parseIntIsNaN(v) \/ parseInt(v) < 1 \/ parseInt(v) > 10

MoodRows(rows, date) == { k \in 1..Len(rows) : rows[k].date = date }

\* INSERT .. ON CONFLICT (date) DO UPDATE SET mood_score = EXCLUDED.mood_score, ..
UpsertMood(rows, entry) ==
  IF MoodRows(rows, entry.date) = {}
  THEN Append(rows, entry)
  ELSE [k \in 1..Len(rows) |-> IF k \in MoodRows(rows, entry.date) THEN entry ELSE rows[k]]

MoodErrors == [newEntries |-> 0, updatedEntries |-> 0, errors |-> 1]

\* processData(moodEntryData) of an enabled connector: the result and the two tables
\* after it. A date that is no date makes toISOString throw inside the try block, and
\* a failing statement throws there too; both are caught and counted
processData(rows, agg, date, mood_score, queryOk) ==
  IF ~Truthy(date) \/ mood_score.kind = "undefined"
  THEN [result |-> MoodErrors, rows |-> rows, agg |-> agg]
  ELSE IF NewDate(date) = Invalid THEN [result |-> MoodErrors, rows |-> rows, agg |-> agg]
  ELSE IF ScoreInvalid(mood_score) THEN [result |-> MoodErrors, rows |-> rows, agg |-> agg]
  ELSE IF ~queryOk THEN [result |-> MoodErrors, rows |-> rows, agg |-> agg]
  ELSE [result |-> [newEntries |-> IF MoodRows(rows, date) = {} THEN 1 ELSE 0,
                    updatedEntries |-> IF MoodRows(rows, date) = {} THEN 0 ELSE 1,
                    errors |-> 0],
        rows |-> UpsertMood(rows, [date |-> date, mood_score |-> parseInt(mood_score)]),
        agg |-> updateDailyAggregation(agg, date, "mood", 1)]

\* POST /mood with a body: 400 for a missing date or score, 403 when mood tracking is
\* disabled, else processData and 400 or 201 by its error count
PostMood(date, mood_score, queryOk) ==
  LET request == [mood EXCEPT !.called = TRUE, !.date = date, !.mood_score = mood_score,
                              !.before = mood_entries,
                              !.aggregationsBefore = daily_aggregations,
                              !.processed = FALSE, !.result = NoResult]
      out == processData(mood_entries, daily_aggregations, date, mood_score, queryOk)
  IN /\ IF ~Truthy(date) \/ mood_score.kind = "undefined"
        THEN /\ mood' = [request EXCEPT !.status = 400]
             /\ UNCHANGED <<mood_entries, daily_aggregations>>
        ELSE IF ~mood.enabled
        THEN /\ mood' = [request EXCEPT !.status = 403]
             /\ UNCHANGED <<mood_entries, daily_aggregations>>
        ELSE /\ mood' = [request EXCEPT !.processed = TRUE, !.result = out.result,
                                        !.status = IF out.result.errors > 0 THEN 400 ELSE 201]
             /\ mood_entries' = out.rows
             /\ daily_aggregations' = out.agg
     /\ UNCHANGED <<limitlessTables, beeTables, system_metadata, connectors,
                    run, walk, syncAll, validation, apiKeys, weather_entries, weather>>

\* mood tracking enabled or disabled in the configuration
InitMood ==
  /\ walk = IdleWalk
  /\ syncAll = IdleSyncAll
  /\ validation = IdleValidation
  /\ limitless_entries = <<>>
  /\ limitless_content_nodes = <<>>
  /\ bee_conversations = <<>>
  /\ bee_utterances = <<>>
  /\ bee_facts = <<>>
  /\ connectors \in {{"limitless"}, {"bee"}}
  /\ apiKeys = {"limitless", "bee"}
  /\ system_metadata = EmptyTable
  /\ daily_aggregations = EmptyTable
  /\ run = [t \in Triggers |-> IdleRun]
  /\ weather_entries = <<>>
  /\ weather = [t \in Triggers |-> IdleWeather]
  /\ mood_entries = <<>>
  /\ mood \in { [IdleMood EXCEPT !.enabled = e] : e \in BOOLEAN }

NextMood ==
  \E date \in MoodDates, mood_score \in MoodScores, queryOk \in BOOLEAN :
    PostMood(date, mood_score, queryOk)

SpecMood == InitMood /\ [][NextMood]_vars

\* ===== the properties

\* C1: for every source and every sequence of sync runs, the stored watermark never
\* moves to an earlier instant: no step of any run lowers it
WatermarkNeverDecreases ==
  [][\A sourceName \in {"limitless", "bee"} :
       getLastSyncTime(system_metadata', sourceName)
         >= getLastSyncTime(system_metadata, sourceName)]_vars

\* C2: two sync runs of the same source never interleave: while one call of
\* syncSource(S) is between its start and its result, no second call for S is fetching,
\* writing the store or writing the watermark
RunsNeverInterleave ==
  \A t1, t2 \in Triggers :
    (/\ t1 # t2
     /\ run[t1].pc \notin {"idle", "done"}
     /\ run[t2].pc \notin {"idle", "done"}) => run[t1].source # run[t2].source

\* C3: a sync run that ends with a fatal result (success = false) leaves the source's
\* watermark at the value it had when the run started
FatalRunLeavesWatermark ==
  \A t \in Triggers :
    (run[t].pc = "done" /\ ~run[t].result.success)
      => getLastSyncTime(system_metadata, run[t].source) = run[t].syncTimeBefore

\* the rows of a run's source that hold an external id, in a state of the two tables
StoredUnder(sourceName, entries, conversations, id) ==
  IF sourceName = "limitless" THEN RowsWithId(entries, id) ELSE RowsWithBeeId(conversations, id)

\* C4: replay idempotence: reconciling a valid record reports an insert exactly when
\* the store holds no row with its external id, an update otherwise, and leaves exactly
\* one row with that id; so a record reconciled twice gives one insert, then one
\* update, never two inserts, and one row
ReplayIdempotence ==
  [][\A t \in Triggers :
       (/\ run[t].pc = "persisting"
        /\ run'[t].newEntries + run'[t].updatedEntries
             = run[t].newEntries + run[t].updatedEntries + 1)
       => LET id == run[t].rawData[run[t].i].id
          IN /\ (run'[t].newEntries = run[t].newEntries + 1)
                  <=> StoredUnder(run[t].source, limitless_entries, bee_conversations, id) = {}
             /\ Cardinality(StoredUnder(run[t].source, limitless_entries',
                                        bee_conversations', id)) = 1]_vars

\* a run has reconciled the same record twice: one insert, one update
ReplayHappened ==
  \E t \in Triggers :
    /\ run[t].pc = "done"
    /\ Len(run[t].rawData) = 2
    /\ run[t].rawData[1] = run[t].rawData[2]
    /\ run[t].result.newEntries = 1
    /\ run[t].result.updatedEntries = 1

\* C5: the result of a run that fetched a batch satisfies
\* newEntries + updatedEntries + errors = the number of records fetched
OutcomesAddUp ==
  \A t \in Triggers :
    (run[t].pc = "done" /\ run[t].fetched)
      => run[t].result.newEntries + run[t].result.updatedEntries + run[t].result.errors
           = Len(run[t].rawData) + Len(run[t].facts)

\* C6: records of one batch that share an external id are counted once: a run reports
\* no more insert-or-update outcomes than its batch has distinct external ids
DuplicateCountedOnce ==
  \A t \in Triggers :
    (run[t].pc = "done" /\ run[t].result.success /\ run[t].source = "limitless")
      => run[t].result.newEntries + run[t].result.updatedEntries
           <= Cardinality({ run[t].rawData[k].id : k \in 1..Len(run[t].rawData) })

ChildRows(nodes, entryId) == { k \in 1..Len(nodes) : nodes[k].entry_id = entryId }

\* C7: re-processing a lifelog whose content nodes are already stored creates no
\* additional child row: when an update finds as many rows under the entry as the
\* lifelog has nodes, the content node table is the same after the step
ChildrenNotDuplicated ==
  [][\A t \in Triggers :
       (/\ run[t].pc = "persisting" /\ run[t].source = "limitless"
        /\ run'[t].updatedEntries = run[t].updatedEntries + 1
        /\ LET lifelog == run[t].rawData[run[t].i]
           IN \E k \in RowsWithId(limitless_entries, lifelog.id) :
                Cardinality(ChildRows(limitless_content_nodes, k)) = CountNodes(lifelog.contents))
       => limitless_content_nodes' = limitless_content_nodes]_vars

\* C8: for every date, the stored count of each source never decreases, over any
\* sequence of runs and any interleaving of their aggregation calls
RollupCountNeverDecreases ==
  [][\A date \in DOMAIN daily_aggregations :
       /\ date \in DOMAIN daily_aggregations'
       /\ daily_aggregations'[date].limitless_entry_count
            >= daily_aggregations[date].limitless_entry_count
       /\ daily_aggregations'[date].bee_conversation_count
            >= daily_aggregations[date].bee_conversation_count]_vars

\* two runs have both passed their aggregation step for the same date, the first with
\* two items, the second with one, and the date has a row
TwoRunsRolledUp ==
  /\ run["cron"].pc = "done" /\ run["cron"].result.newEntries = 1
  /\ run["cron"].result.updatedEntries = 1
  /\ run["api"].pc = "done" /\ run["api"].result.updatedEntries = 1
  /\ Len(run["api"].rawData) = 1
  /\ DateOf(1) \in DOMAIN daily_aggregations

\* C9: after the aggregation step of a run has applied (date, source, count), the row
\* of the date exists, its presence flag is true and its count is at least the count
\* applied
RollupAppliedIsStored ==
  \A t \in Triggers :
    (/\ run[t].pc = "done" /\ run[t].result.success /\ run[t].source = "limitless"
     /\ run[t].result.newEntries + run[t].result.updatedEntries > 0)
    => \A date \in AffectedDates(run[t].rawData) :
         /\ date \in DOMAIN daily_aggregations
         /\ daily_aggregations[date].has_limitless_data
         /\ daily_aggregations[date].limitless_entry_count
              >= EntriesOnDate(run[t].rawData, date)

\* C10: the walker stops at the first page that has fewer than limit items: while the
\* Limitless walker is still fetching, every page served so far was full
WalkerStopsOnShortPage ==
  (walk.connector = "limitless" /\ walk.pc = "fetching")
    => \A k \in 1..Len(walk.served) : walk.served[k].n >= Limit

\* C11: the pagination walker never issues more page requests in one walk than the
\* maximum page count, and every walk whose requests are answered ends, whatever the
\* source serves
WalkerBounded ==
  /\ [](walk.requests <= MaxPages)
  /\ (walk.pc = "fetching") ~> (walk.pc \in {"returned", "thrown"})

\* a walk ended by the page limit: every page it was served was full and carried a
\* next cursor
WalkerHitPageLimit ==
  /\ walk.pc = "returned"
  /\ walk.requests = MaxPages
  /\ \A k \in 1..Len(walk.served) : walk.served[k].n = Limit /\ walk.served[k].next

\* C12: when a page request fails after at least one page was fetched, the walker
\* stops and returns the pages it has accumulated, so that their records are still
\* processed: a walk that was served a non-empty page never ends by throwing
PartialFetchKept ==
  (/\ walk.pc \in {"returned", "thrown"}
   /\ \E k \in 1..Len(walk.served) : walk.served[k].n > 0)
    => walk.pc = "returned" /\ walk.allData # <<>>

\* C13: when a batch holds a lifelog rejected for its timestamp together with valid
\* lifelogs, the run still ends with success = true and counts the rejection
RejectedTimestampAbsorbed ==
  \A t \in Triggers :
    (/\ run[t].pc = "done" /\ run[t].source = "limitless"
     /\ \E k \in 1..Len(run[t].rawData) :
          /\ Truthy(run[t].rawData[k].id)
          /\ ~EntryValid(EntryOf(run[t].rawData[k]))
     /\ \E k \in 1..Len(run[t].rawData) : EntryValid(EntryOf(run[t].rawData[k])))
    => run[t].result.success /\ run[t].result.errors >= 1

\* C14: within one run the stages occur in the order fetch, normalize, persist,
\* rollup, watermark: when the watermark is written, no run that fetched records is
\* left with its daily aggregation step still to do
WatermarkAfterRollup ==
  [][system_metadata' # system_metadata
       => \A t \in Triggers : ~(run'[t].pc = "rolling_up" /\ run'[t].rawData # <<>>)]_vars

\* the modification time processData reads from a lifelog
ModifiedAt(lifelog) ==
  NewDate(Or4(lifelog.updated_at, lifelog.created_at, lifelog.end_time, 0))

\* C15: the value a run writes to the watermark is the modification time of a record
\* of the batch that was accepted for persisting, never one of a rejected record only
WatermarkFromPersisted ==
  [][\A t \in Triggers :
       (/\ run[t].pc = "advancing_watermark" /\ run[t].source = "limitless"
        /\ system_metadata' # system_metadata)
       => getLastSyncTime(system_metadata', "limitless")
            \in { ModifiedAt(run[t].rawData[k]) :
                    k \in { j \in 1..Len(run[t].rawData) :
                              EntryValid(EntryOf(run[t].rawData[j])) } }]_vars

\* C16: a run writes the watermark only after the upsert of every record of its batch
\* has been attempted: at the write, the records it has inserted, updated or rejected
\* are as many as it fetched
WatermarkAfterAllUpserts ==
  [][system_metadata' # system_metadata
       => \E t \in Triggers :
            /\ run'[t] # run[t]
            /\ run[t].newEntries + run[t].updatedEntries + run[t].errorCount
                 = Len(run[t].rawData) + Len(run[t].facts)]_vars

\* a run that fetched two records has written the first watermark of its source
WatermarkWrittenAfterBatch ==
  \E t \in Triggers :
    /\ run[t].pc = "rolling_up"
    /\ Len(run[t].rawData) + Len(run[t].facts) = 2
    /\ run[t].syncTimeBefore = 0
    /\ SyncKey(run[t].source) \in DOMAIN system_metadata

\* C17: a run returns success = false only from the fetching stage: a run whose
\* fetchData has returned ends with success = true, whatever happens to its records
\* and in its later stages
FailedOnlyFromFetching ==
  \A t \in Triggers :
    (run[t].pc = "done" /\ run[t].fetched) => run[t].result.success

\* C18: a run whose every request of the fetching stage was answered with an error
\* ends with success = false, for the lifelog and the conversation source alike
RejectedFetchIsFatal ==
  \A t \in Triggers :
    (run[t].pc = "done" /\ run[t].fetchFailed) => ~run[t].result.success

\* C19: a run that returns success = false has processed no record: it has inserted
\* and updated nothing, and it has not moved the watermark of its source
FailedMeansNothingWritten ==
  \A t \in Triggers :
    (run[t].pc = "done" /\ ~run[t].result.success)
      => /\ run[t].newEntries = 0
         /\ run[t].updatedEntries = 0
         /\ getLastSyncTime(system_metadata, run[t].source) = run[t].syncTimeBefore

ContentsOf(seq) == [k \in 1..Len(seq) |-> seq[k].content]

\* C21: a child that fails to persist is skipped and nothing else is aborted: in the
\* step that stores a parent record, the parent is counted and stays stored, every
\* top-level content node that does not fail is inserted, in the source's order, every
\* valid utterance has its row, and the loop goes on with the next parent of the batch
ChildFailureSkipped ==
  [][\A t \in Triggers :
       (/\ run[t].pc = "persisting"
        /\ run'[t].newEntries + run'[t].updatedEntries
             = run[t].newEntries + run[t].updatedEntries + 1)
       => LET rec == run[t].rawData[run[t].i]
              stored == StoredUnder(run[t].source, limitless_entries', bee_conversations', rec.id)
              added == SubSeq(limitless_content_nodes', Len(limitless_content_nodes) + 1,
                              Len(limitless_content_nodes'))
              utterances == Or2(rec.transcriptions, rec.utterances)
          IN /\ stored # {}
             /\ run[t].i < Len(run[t].rawData)
                  => run'[t].pc = "persisting" /\ run'[t].i = run[t].i + 1
             /\ run[t].source = "limitless"
                  => ContentsOf(SelectSeq(added, LAMBDA row : row.parent_id = 0))
                       = ContentsOf(SelectSeq(rec.contents, LAMBDA node : ~NodeThrows(node)))
             /\ run[t].source = "bee"
                  => \A k \in 1..Len(utterances) :
                       \A id \in stored :
                         UtteranceValid(UtteranceEntry(utterances[k], id))
                           => \E j \in 1..Len(bee_utterances') :
                                /\ bee_utterances'[j].conversation_id = id
                                /\ bee_utterances'[j].bee_utterance_id = utterances[k].id]_vars

\* a lifelog whose first content node failed has the node that follows it stored, and
\* the run went on to the second lifelog of its batch
SiblingStoredAfterFailedNode ==
  \E t \in Triggers :
    /\ run[t].source = "limitless"
    /\ Len(run[t].rawData) = 2
    /\ run[t].i = 2
    /\ run[t].newEntries = 1
    /\ run[t].rawData[1].contents # <<>>
    /\ NodeThrows(run[t].rawData[1].contents[1])
    /\ ContentsOf(limitless_content_nodes) = <<"z">>

\* the depth-first pre-order walk of a content tree, sibling order kept, without the
\* nodes that fail and their descendants
RECURSIVE PreOrder(_)
PreOrder(contentNodes) ==
  IF contentNodes = <<>> THEN <<>>
  ELSE LET node == Head(contentNodes)
       IN (IF NodeThrows(node) THEN <<>> ELSE <<node.content>> \o PreOrder(node.children))
            \o PreOrder(Tail(contentNodes))

NoDefaultedRecord ==
  /\ \A k \in 1..Len(limitless_entries) :
       /\ Truthy(limitless_entries[k].limitless_id)
       /\ limitless_entries[k].start_time \notin {Invalid, 0}
       /\ limitless_entries[k].end_time \notin {Invalid, 0}
  /\ \A k \in 1..Len(bee_conversations) :
       /\ Truthy(bee_conversations[k].bee_id)
       /\ bee_conversations[k].start_time \notin {Invalid, 0}
       /\ bee_conversations[k].end_time \notin {Invalid, 0}

\* C24: the presence flags of a date are set idempotently: a flag that is true stays
\* true over every apply call, of its own source or another, and every summary write
PresenceFlagStaysSet ==
  [][\A date \in DOMAIN daily_aggregations :
       /\ date \in DOMAIN daily_aggregations'
       /\ daily_aggregations[date].has_limitless_data
            => daily_aggregations'[date].has_limitless_data
       /\ daily_aggregations[date].has_bee_data => daily_aggregations'[date].has_bee_data
       /\ daily_aggregations[date].has_weather_data
            => daily_aggregations'[date].has_weather_data
       /\ daily_aggregations[date].has_mood_data => daily_aggregations'[date].has_mood_data]_vars

\* limitless was applied with one item, the summary was written, limitless was applied
\* again with two items and bee was applied: both flags are true
FlagSetAppliedAgain ==
  /\ DateOf(1) \in DOMAIN daily_aggregations
  /\ daily_aggregations[DateOf(1)].ai_summary = <<1, 0>>
  /\ daily_aggregations[DateOf(1)].limitless_entry_count = 2
  /\ daily_aggregations[DateOf(1)].has_limitless_data
  /\ daily_aggregations[DateOf(1)].has_bee_data

\* C25: a row of daily_aggregations exists only for a date on which some source
\* reported activity: the day view is a plain read, so every stored row has a
\* presence flag set
RollupRowOnlyFromActivity ==
  \A date \in DOMAIN daily_aggregations :
    \/ daily_aggregations[date].has_limitless_data
    \/ daily_aggregations[date].has_bee_data
    \/ daily_aggregations[date].has_weather_data
    \/ daily_aggregations[date].has_mood_data

\* C26: no request is retried within a fetch: at most one request of a page loop has
\* failed, it was the last of the loop, no page is requested twice, and the detail
\* loop has made one request for each conversation it has handled
NoRetryWithinRun ==
  /\ walk.requests - Len(walk.served) \in {0, 1}
  /\ walk.requests > Len(walk.served) => walk.pc \in {"returned", "thrown"}
  /\ walk.requests <= walk.page
  /\ walk.detailRequests = walk.detailed

\* a page loop ended on a failed request after a full page was served
LoopEndedOnFailedRequest ==
  /\ walk.pc \in {"returned", "thrown"}
  /\ walk.requests = 2
  /\ Len(walk.served) = 1

\* the external ids a parent table holds
LimitlessIds(entries) == { entries[k].limitless_id : k \in 1..Len(entries) }
BeeIds(rows) == { rows[k].bee_id : k \in 1..Len(rows) }

\* a child table keeps the rows it has
KeepsRows(before, after) ==
  /\ Len(before) <= Len(after)
  /\ \A k \in 1..Len(before) : after[k] = before[k]

\* C27: persisted records remain persisted: no step of any run, successful, partly
\* failed or failed, removes an external id from a parent table or a row from a child
\* table
PersistedRecordsRemain ==
  [][/\ LimitlessIds(limitless_entries) \subseteq LimitlessIds(limitless_entries')
     /\ BeeIds(bee_conversations) \subseteq BeeIds(bee_conversations')
     /\ BeeIds(bee_facts) \subseteq BeeIds(bee_facts')
     /\ KeepsRows(limitless_content_nodes, limitless_content_nodes')
     /\ KeepsRows(bee_utterances, bee_utterances')]_vars

\* a run that stored a record has returned success = false, and the record is stored
FailedRunKeptRecord ==
  \E t \in Triggers :
    /\ run[t].pc = "done"
    /\ ~run[t].result.success
    /\ run[t].newEntries = 1
    /\ Len(limitless_entries) + Len(bee_conversations) + Len(bee_facts) = 1

\* C28: a fetch whose request is never answered still ends: the fetching stage is
\* always left, with a result or a failure
StalledFetchEnds == (walk.pc = "fetching") ~> (walk.pc # "fetching")

\* the number of rows of the parent tables
ParentRows(entries, conversations, facts) == Len(entries) + Len(conversations) + Len(facts)

\* C29: the counts reflect the store: in every step of a run, newEntries grows by the
\* number of rows the step added to the parent tables, updatedEntries grows only in a
\* step whose record was already stored under its external id and adds no row, and
\* the result of a successful run carries the two counts
CountsReflectStore ==
  /\ [](\A t \in Triggers :
          (run[t].pc = "done" /\ run[t].result.success)
            => /\ run[t].result.newEntries = run[t].newEntries
               /\ run[t].result.updatedEntries = run[t].updatedEntries)
  /\ [][\A t \in Triggers :
          (run[t].pc \in {"persisting", "persisting_facts"} /\ run'[t] # run[t])
          => LET added == ParentRows(limitless_entries', bee_conversations', bee_facts')
                            - ParentRows(limitless_entries, bee_conversations, bee_facts)
                 rec == IF run[t].pc = "persisting" THEN run[t].rawData[run[t].i]
                        ELSE run[t].facts[run[t].i]
                 hit == IF run[t].source = "limitless"
                        THEN rec.id \in LimitlessIds(limitless_entries)
                        ELSE IF run[t].pc = "persisting"
                        THEN rec.id \in BeeIds(bee_conversations)
                        ELSE rec.id \in BeeIds(bee_facts)
             IN /\ run'[t].newEntries = run[t].newEntries + added
                /\ run'[t].updatedEntries \in {run[t].updatedEntries, run[t].updatedEntries + 1}
                /\ run'[t].updatedEntries = run[t].updatedEntries + 1 => hit /\ added = 0
                /\ (hit /\ run'[t].errorCount = run[t].errorCount)
                     => run'[t].updatedEntries = run[t].updatedEntries + 1]_vars

\* a run found both records of its batch stored by the other run: it reports two
\* updates and no insert, and the table has one row
RunReportedOnlyUpdates ==
  \E t \in Triggers :
    /\ run[t].pc = "done"
    /\ run[t].result.success
    /\ run[t].result.newEntries = 0
    /\ run[t].result.updatedEntries = 2
    /\ ParentRows(limitless_entries, bee_conversations, bee_facts) = 1

\* the days of a month of the Gregorian calendar
DaysIn(year, month) ==
  IF month = 2
  THEN IF (year % 4 = 0 /\ year % 100 # 0) \/ year % 400 = 0 THEN 29 ELSE 28
  ELSE IF month \in {4, 6, 9, 11} THEN 30 ELSE 31

\* a string of the YYYY-MM-DD shape that denotes a day of the calendar
IsCalendarDate(dateString) ==
  /\ dateString.kind = "string"
  /\ MatchesShape(dateString.chars)
  /\ LET c == dateString.chars
         year == 1000 * DigitValue(c[1]) + 100 * DigitValue(c[2]) + 10 * DigitValue(c[3])
                   + DigitValue(c[4])
         month == 10 * DigitValue(c[6]) + DigitValue(c[7])
         day == 10 * DigitValue(c[9]) + DigitValue(c[10])
     IN month \in 1..12 /\ day \in 1..DaysIn(year, month)

\* C30: isValidYYYYMMDD returns true exactly for the strings of the YYYY-MM-DD shape
\* that denote a real calendar date
ValidExactlyForCalendarDates ==
  validation.called => (validation.result <=> IsCalendarDate(validation.dateString))

\* the stored rows of a parent table whose start instant is on a UTC date
RowsOnDate(rows, date) == { k \in 1..Len(rows) : DateOf(rows[k].start_time) = date }

AllRejectedLeavesWatermark ==
  \A t \in Triggers :
    (/\ run[t].pc = "done"
     /\ Len(run[t].rawData) + Len(run[t].facts) > 0
     /\ run[t].newEntries = 0
     /\ run[t].updatedEntries = 0
     /\ run[t].errorCount = Len(run[t].rawData) + Len(run[t].facts))
      => getLastSyncTime(system_metadata, run[t].source) = run[t].syncTimeBefore

\* the fields of a daily_aggregations row that belong to one writer
FieldGroups == {"limitless", "bee", "weather", "mood", "summary"}
FieldsOf(row, group) ==
  CASE group = "limitless" -> <<row.has_limitless_data, row.limitless_entry_count>>
    [] group = "bee" -> <<row.has_bee_data, row.bee_conversation_count>>
    [] group = "weather" -> <<row.has_weather_data>>
    [] group = "mood" -> <<row.has_mood_data>>
    [] OTHER -> <<row.ai_summary>>

\* C33: a write to a daily_aggregations row touches only its own fields: an apply for
\* one source leaves the flags and counts of the other sources and the summary
\* unchanged, and a summary write leaves every flag and count unchanged
RollupWritesOwnFields ==
  [][\A date \in DOMAIN daily_aggregations' :
       Cardinality({ group \in FieldGroups :
                       FieldsOf(AggregationRow(daily_aggregations', date), group)
                         # FieldsOf(AggregationRow(daily_aggregations, date), group) }) <= 1]_vars

\* the summary of an empty day was stored, then limitless and weather were applied
AppliedAfterSummary ==
  /\ DateOf(1) \in DOMAIN daily_aggregations
  /\ daily_aggregations[DateOf(1)].ai_summary = <<0, 0>>
  /\ daily_aggregations[DateOf(1)].limitless_entry_count = 1
  /\ daily_aggregations[DateOf(1)].has_weather_data
  /\ ~daily_aggregations[DateOf(1)].has_bee_data

\* C34: syncSource for a source that is unknown or disabled returns success = false
\* without fetching, and it never throws
UnregisteredSourceRefused ==
  \A t \in Triggers :
    /\ ~run[t].thrown
    /\ (run[t].pc = "done" /\ run[t].source \notin connectors)
         => ~run[t].result.success /\ ~run[t].fetched

\* the tables and the watermark a source writes
NothingStored(sourceName) ==
  /\ SyncKey(sourceName) \notin DOMAIN system_metadata
  /\ sourceName = "limitless" => limitless_entries = <<>> /\ limitless_content_nodes = <<>>
  /\ sourceName = "bee" => bee_conversations = <<>> /\ bee_utterances = <<>> /\ bee_facts = <<>>

\* C35: a source that is enabled but has no API key never sends a request and never
\* writes a row or its watermark, and each of its runs returns success = true with
\* zero inserted, zero updated and zero rejected
MissingKeySkipsSync ==
  \A sourceName \in connectors \ apiKeys :
    /\ NothingStored(sourceName)
    /\ \A t \in Triggers :
         run[t].source = sourceName =>
           /\ ~run[t].fetched /\ ~run[t].fetchFailed
           /\ run[t].pc = "done" =>
                /\ run[t].result.success
                /\ run[t].result.newEntries = 0
                /\ run[t].result.updatedEntries = 0
                /\ run[t].result.errors = 0

MissingKeyRunReturned ==
  \E t \in Triggers :
    /\ run[t].pc = "done"
    /\ run[t].source \in connectors \ apiKeys
    /\ run[t].result = NoNewData

\* a run that starts for a day and place that have a row, without forceRefresh
StartsOnStoredDay(t) ==
  /\ weather[t].pc = "idle"
  /\ weather'[t].pc # "idle"
  /\ ~weather'[t].forceRefresh
  /\ WeatherRows(weather_entries, weather'[t].date, weather'[t].location) # {}

OneRowPerDayAndPlace ==
  \A date \in WeatherDates, location \in Locations :
    Cardinality(WeatherRows(weather_entries, date, location)) <= 1

\* C36: there is at most one weather row per (date, location), and a run for a
\* (date, location) that already has a row, without forceRefresh, sends no request,
\* changes no row and reports zero inserted and zero updated
WeatherSyncIdempotent ==
  /\ []OneRowPerDayAndPlace
  /\ [][\A t \in Triggers :
          StartsOnStoredDay(t) =>
            /\ weather'[t].pc = "done"
            /\ weather'[t].requests = 0
            /\ weather'[t].result.newEntries = 0
            /\ weather'[t].result.updatedEntries = 0
            /\ weather_entries' = weather_entries]_vars

StoredDaySkipped ==
  \E t \in Triggers :
    /\ weather[t].pc = "done"
    /\ weather[t].result = NoNewData
    /\ ~weather[t].forceRefresh
    /\ HasApiKey("weather")
    /\ WeatherRows(weather_entries, weather[t].date, weather[t].location) # {}
    /\ Len(weather_entries) > 1

\* the last request was refused: status 400, and errors = 1 when processData ran
MoodRejected == mood.status = 400 /\ (mood.processed => mood.result.errors = 1)

MoodTablesUntouched ==
  mood_entries = mood.before /\ daily_aggregations = mood.aggregationsBefore

\* a score that is no number from 1 to 10
ScoreOutside(v) ==
  v.kind = "number" /\ (v.whole < 1 \/ v.whole > 10 \/ (v.whole = 10 /\ v.tenths > 0))

\* C37: the mood table holds one row per date; a submission with a missing date, a
\* missing score or a score outside 1..10 is refused with errors = 1 and leaves the
\* mood table and the daily rollup unchanged; a valid submission for a date that has
\* an entry overwrites that entry and is reported as one update
MoodSubmissionValidated ==
  /\ \A date \in MoodDates : Cardinality(MoodRows(mood_entries, date)) <= 1
  /\ (mood.called /\ mood.enabled) =>
       /\ (~Truthy(mood.date) \/ mood.mood_score.kind = "undefined"
             \/ ScoreOutside(mood.mood_score))
            => MoodRejected /\ MoodTablesUntouched
       /\ (mood.status = 201 /\ MoodRows(mood.before, mood.date) # {})
            => /\ mood.result.updatedEntries = 1
               /\ mood.result.newEntries = 0
               /\ Len(mood_entries) = Len(mood.before)
               /\ \A k \in MoodRows(mood_entries, mood.date) :
                     mood_entries[k].mood_score = parseInt(mood.mood_score)
====
